---- MODULE Spec2Model ----
(***************************************************************************)
(* State-machine model of the two views of frontend/src/pages:             *)
(*   AnalyzePage   - a form, the async handler submit (two sequential      *)
(*                   POSTs) and the results panel;                         *)
(*   DashboardPage - the async fetchData (mount effect and Refresh), the   *)
(*                   kpiTone mapping and the panels.                       *)
(* Each async handler is split at its awaits: the synchronous part up to   *)
(* an await is one action, the continuation after the promise settles is   *)
(* another.  A handler invocation that is suspended at an await is a       *)
(* record in `calls` (AnalyzePage) or `fetches` (DashboardPage); it holds  *)
(* the values the closure captured when the handler was created.           *)
(* Route changes (navigate) unmount the view and are outside the model.    *)
(***************************************************************************)
EXTENDS Integers, Sequences, FiniteSets, TLC

\* ---- bounds of the model ------------------------------------------------
MaxSubmits == 3
MaxFetches == 3

\* ---- values ---------------------------------------------------------------
NULL == [null |-> TRUE]

Products == {"NeoGadget", "AeroPhone"}
Brands == {"BlueNova", "RedStar"}
StartDates == {"2026-10-28", "2026-10-01"}
EndDates == {"2026-11-04", "2026-11-30"}

\* the last seven days ending today (today taken as 2026-11-04)
defaultDates == [start |-> "2026-10-28", end |-> "2026-11-04"]

\* useState<Platform>("YouTube") has no setter
platform == "YouTube"

\* what a rejected request can be rejected with
Errs == {"network", "status500"}

\* the shared client's normalisation of an error to one readable string
formatError(err) ==
  IF err = "network" THEN "Network Error"
  ELSE "Request failed with status code 500"

\* payloads the backend may return; `cycle` / `fetch` name the request that
\* the response answers
TotalPosts == {0, 120}
PredRisks == {"Low", "High"}
SentimentResponses(id) ==
  { [cycle |-> id, average_sentiment |-> 0, total_posts |-> n, negative_percentage |-> 40]
      : n \in TotalPosts }
PredictionResponses(id) ==
  { [cycle |-> id, predicted_drop_percentage |-> 12, loss_probability |-> 1,
     risk_level |-> r, explanation |-> "negative share rising"] : r \in PredRisks }

VARIABLES
  \* AnalyzePage state
  product, brand, range, loading, sentiment, prediction, error,
  calls,       \* invocations of submit suspended at an await
  nSubmits,    \* number of submit invocations so far
  cycle,       \* record of the latest submit cycle (history)
  \* DashboardPage state
  data, dError, dLoading,
  mounted,     \* whether the mount effect has run
  fetches,     \* invocations of fetchData suspended at the await
  nFetches,    \* number of fetchData invocations so far
  settled      \* the fetch that settled last (history)

analyzeVars == <<product, brand, range, loading, sentiment, prediction, error,
                 calls, nSubmits, cycle>>
dashVars == <<data, dError, dLoading, mounted, fetches, nFetches, settled>>
vars == <<analyzeVars, dashVars>>

\* ===========================================================================
\* AnalyzePage
\* ===========================================================================

Init ==
  \* AnalyzePage: the useState initial values
  /\ product = "NeoGadget"
  /\ brand = "BlueNova"
  /\ range = defaultDates
  /\ loading = FALSE
  /\ sentiment = NULL
  /\ prediction = NULL
  /\ error = ""
  /\ calls = {}
  /\ nSubmits = 0
  /\ cycle = [id |-> 0, before |-> [sentiment |-> NULL, prediction |-> NULL],
              requestA |-> NULL, requestB |-> NULL, outcome |-> "none", err |-> ""]
  \* DashboardPage: the useState initial values, before the mount effect
  /\ data = NULL
  /\ dError = ""
  /\ dLoading = TRUE
  /\ mounted = FALSE
  /\ fetches = {}
  /\ nFetches = 0
  /\ settled = NULL

\* the request body built from the values a submit closure holds
RequestBody(c) ==
  [product_name |-> c.product, brand_name |-> c.brand, platform |-> platform,
   start_date |-> c.range.start, end_date |-> c.range.end]

SentimentBody(c) == RequestBody(c)

\* variant: request B built from the form state at the time it is issued
PredictionBody_FromForm(c) ==
  [product_name |-> product, brand_name |-> brand, platform |-> platform,
   start_date |-> range.start, end_date |-> range.end]

PredictionBody(c) == RequestBody(c)

\* onChange handlers of the form inputs
setProduct(v) ==
  /\ v # product
  /\ product' = v
  /\ UNCHANGED <<brand, range, loading, sentiment, prediction, error, calls, nSubmits, cycle>>

setBrand(v) ==
  /\ v # brand
  /\ brand' = v
  /\ UNCHANGED <<product, range, loading, sentiment, prediction, error, calls, nSubmits, cycle>>

setRangeStart(v) ==
  /\ v # range.start
  /\ range' = [range EXCEPT !.start = v]
  /\ UNCHANGED <<product, brand, loading, sentiment, prediction, error, calls, nSubmits, cycle>>

setRangeEnd(v) ==
  /\ v # range.end
  /\ range' = [range EXCEPT !.end = v]
  /\ UNCHANGED <<product, brand, loading, sentiment, prediction, error, calls, nSubmits, cycle>>

\* variant: the button is not disabled while loading
SubmitEnabled_Always == TRUE

\* the Run-analysis button is clickable
SubmitEnabled == ~loading

\* submit up to its first await: setLoading(true); setError(""); post A
submit ==
  /\ SubmitEnabled
  /\ nSubmits < MaxSubmits
  /\ LET id == nSubmits + 1
         c == [id |-> id, product |-> product, brand |-> brand, range |-> range]
     IN /\ loading' = TRUE
        /\ error' = ""
        /\ nSubmits' = id
        /\ calls' = calls \cup
             {[id |-> id, product |-> product, brand |-> brand, range |-> range,
               pc |-> "awaitA",
               pending |-> [url |-> "/analyze-sentiment", body |-> SentimentBody(c)]]}
        /\ cycle' = [id |-> id,
                     before |-> [sentiment |-> sentiment, prediction |-> prediction],
                     requestA |-> SentimentBody(c), requestB |-> NULL,
                     outcome |-> "running", err |-> ""]
  /\ UNCHANGED <<product, brand, range, sentiment, prediction>>

\* request A resolved: setSentiment(sentimentResp.data); post B
ResolveA(c, resp) ==
  /\ c \in calls /\ c.pc = "awaitA"
  /\ sentiment' = resp
  /\ calls' = (calls \ {c}) \cup
       {[c EXCEPT !.pc = "awaitB",
                  !.pending = [url |-> "/predict-sales-loss", body |-> PredictionBody(c)]]}
  /\ cycle' = IF cycle.id = c.id
              THEN [cycle EXCEPT !.requestB = PredictionBody(c)] ELSE cycle
  /\ UNCHANGED <<product, brand, range, loading, prediction, error, nSubmits>>

\* variant: the catch branch also drops the stored results
RejectA_ClearsResults(c, err) ==
  /\ c \in calls /\ c.pc = "awaitA"
  /\ error' = formatError(err)
  /\ loading' = FALSE
  /\ sentiment' = NULL
  /\ prediction' = NULL
  /\ calls' = calls \ {c}
  /\ cycle' = IF cycle.id = c.id
              THEN [cycle EXCEPT !.outcome = "failedA", !.err = err] ELSE cycle
  /\ UNCHANGED <<product, brand, range, nSubmits>>

\* request A rejected: catch { setError(formatError(err)) } finally { setLoading(false) }
RejectA(c, err) ==
  /\ c \in calls /\ c.pc = "awaitA"
  /\ error' = formatError(err)
  /\ loading' = FALSE
  /\ calls' = calls \ {c}
  /\ cycle' = IF cycle.id = c.id
              THEN [cycle EXCEPT !.outcome = "failedA", !.err = err] ELSE cycle
  /\ UNCHANGED <<product, brand, range, sentiment, prediction, nSubmits>>

\* request B resolved: setPrediction(predictionResp.data); finally { setLoading(false) }
ResolveB(c, resp) ==
  /\ c \in calls /\ c.pc = "awaitB"
  /\ prediction' = resp
  /\ loading' = FALSE
  /\ calls' = calls \ {c}
  /\ cycle' = IF cycle.id = c.id THEN [cycle EXCEPT !.outcome = "ok"] ELSE cycle
  /\ UNCHANGED <<product, brand, range, sentiment, error, nSubmits>>

\* variant: setLoading(false) at the end of the try block instead of finally
RejectB_NoFinally(c, err) ==
  /\ c \in calls /\ c.pc = "awaitB"
  /\ error' = formatError(err)
  /\ calls' = calls \ {c}
  /\ cycle' = IF cycle.id = c.id
              THEN [cycle EXCEPT !.outcome = "failedB", !.err = err] ELSE cycle
  /\ UNCHANGED <<product, brand, range, loading, sentiment, prediction, nSubmits>>

\* request B rejected: catch { setError(formatError(err)) } finally { setLoading(false) }
RejectB(c, err) ==
  /\ c \in calls /\ c.pc = "awaitB"
  /\ error' = formatError(err)
  /\ loading' = FALSE
  /\ calls' = calls \ {c}
  /\ cycle' = IF cycle.id = c.id
              THEN [cycle EXCEPT !.outcome = "failedB", !.err = err] ELSE cycle
  /\ UNCHANGED <<product, brand, range, sentiment, prediction, nSubmits>>

\* what AnalyzePage renders
AnalyzeView ==
  [ submitDisabled |-> loading,
    submitLabel |-> IF loading THEN "Analyzing..." ELSE "Run analysis",
    errorText |-> IF error # "" THEN <<error>> ELSE <<>>,
    skeleton |-> loading,
    sentimentCard |-> IF ~loading /\ sentiment # NULL /\ prediction # NULL
                      THEN <<sentiment>> ELSE <<>>,
    predictionCard |-> IF ~loading /\ sentiment # NULL /\ prediction # NULL
                       THEN <<prediction>> ELSE <<>>,
    placeholder |-> ~loading /\ sentiment = NULL ]

\* ---- the steps of AnalyzePage ---------------------------------------------
EditProduct == (\E v \in Products : setProduct(v)) /\ UNCHANGED dashVars
EditBrand == (\E v \in Brands : setBrand(v)) /\ UNCHANGED dashVars
EditStart == (\E v \in StartDates : setRangeStart(v)) /\ UNCHANGED dashVars
EditEnd == (\E v \in EndDates : setRangeEnd(v)) /\ UNCHANGED dashVars
Submit == submit /\ UNCHANGED dashVars
SentimentResolves ==
  (\E c \in calls : \E r \in SentimentResponses(c.id) : ResolveA(c, r)) /\ UNCHANGED dashVars
SentimentRejects ==
  (\E c \in calls : \E e \in Errs : RejectA(c, e)) /\ UNCHANGED dashVars
PredictionResolves ==
  (\E c \in calls : \E r \in PredictionResponses(c.id) : ResolveB(c, r)) /\ UNCHANGED dashVars
PredictionRejects ==
  (\E c \in calls : \E e \in Errs : RejectB(c, e)) /\ UNCHANGED dashVars

NextAnalyze ==
  \/ EditProduct
  \/ EditBrand
  \/ EditStart
  \/ EditEnd
  \/ Submit
  \/ SentimentResolves
  \/ SentimentRejects
  \/ PredictionResolves
  \/ PredictionRejects

SpecAnalyze == Init /\ [][NextAnalyze]_vars

\* every issued request eventually settles
LiveSpecAnalyze ==
  /\ SpecAnalyze
  /\ WF_vars(SentimentResolves \/ SentimentRejects)
  /\ WF_vars(PredictionResolves \/ PredictionRejects)

\* ===========================================================================
\* DashboardPage
\* ===========================================================================

RiskLevels == {"High", "Medium", "Low", "HIGH"}
NegativePercentages == {35, 36}
AlertLists == {<< >>, <<"Loss probability above threshold">>}

\* snapshots the backend may return to fetch `id`
DashboardResponses(id) ==
  { [fetch |-> id,
     kpis |-> [average_sentiment |-> 0, negative_percentage |-> n,
               predicted_sales_drop |-> 12, risk_level |-> r],
     sentiment_trend |-> <<[date |-> "2026-11-03", average_sentiment |-> 0]>>,
     sentiment_distribution |-> [positive |-> 5, neutral |-> 3, negative |-> 4],
     comment_volume |-> <<[date |-> "2026-11-03", total_posts |-> 12]>>,
     sales_series |-> <<[date |-> "2026-11-03", actual_revenue |-> 100,
                         predicted_revenue |-> 90]>>,
     ai_insights |-> <<"Negative share is rising">>,
     alerts |-> a]
      : n \in NegativePercentages, r \in RiskLevels, a \in AlertLists }

\* fetchData up to its await: setLoading(true); setError(""); api.get(...)
fetchData ==
  /\ dLoading' = TRUE
  /\ dError' = ""
  /\ nFetches' = nFetches + 1
  /\ fetches' = fetches \cup
       {[id |-> nFetches + 1,
         pending |-> [url |-> "/get-dashboard-data",
                      params |-> [product_name |-> "NeoGadget", brand_name |-> "BlueNova",
                                  platform |-> "Twitter"]]]}
  /\ UNCHANGED <<data, settled>>

\* useEffect(() => { fetchData(); }, [])
MountEffect ==
  /\ ~mounted
  /\ mounted' = TRUE
  /\ fetchData

\* the Refresh button: onClick={fetchData}; it is never disabled
Refresh ==
  /\ mounted
  /\ nFetches < MaxFetches
  /\ fetchData
  /\ UNCHANGED mounted

\* variant: a response is stored only if no later fetch was started
FetchResolve_LatestOnly(f, resp) ==
  /\ f \in fetches
  /\ data' = IF f.id = nFetches THEN resp ELSE data
  /\ dLoading' = FALSE
  /\ fetches' = fetches \ {f}
  /\ settled' = [id |-> f.id, ok |-> TRUE]
  /\ UNCHANGED <<dError, mounted, nFetches>>

\* the get resolved: setData(data); finally { setLoading(false) }
FetchResolve(f, resp) ==
  /\ f \in fetches
  /\ data' = resp
  /\ dLoading' = FALSE
  /\ fetches' = fetches \ {f}
  /\ settled' = [id |-> f.id, ok |-> TRUE]
  /\ UNCHANGED <<dError, mounted, nFetches>>

\* variant: the catch branch also drops the stored snapshot
FetchReject_ClearsData(f, err) ==
  /\ f \in fetches
  /\ dError' = formatError(err)
  /\ dLoading' = FALSE
  /\ data' = NULL
  /\ fetches' = fetches \ {f}
  /\ settled' = [id |-> f.id, ok |-> FALSE]
  /\ UNCHANGED <<mounted, nFetches>>

\* the get rejected: catch { setError(formatError(err)) } finally { setLoading(false) }
FetchReject(f, err) ==
  /\ f \in fetches
  /\ dError' = formatError(err)
  /\ dLoading' = FALSE
  /\ fetches' = fetches \ {f}
  /\ settled' = [id |-> f.id, ok |-> FALSE]
  /\ UNCHANGED <<data, mounted, nFetches>>

\* variant: the comparison ignores the letter case of "High"
kpiTone_AnyCase(risk) ==
  IF risk \in {"High", "HIGH"} THEN "bad"
  ELSE IF risk = "Medium" THEN "warn"
  ELSE "good"

kpiTone(risk) ==
  IF risk = "High" THEN "bad"
  ELSE IF risk = "Medium" THEN "warn"
  ELSE "good"

\* the four KPI cards of a snapshot
KPICards(d) ==
  << [label |-> "Average Sentiment", value |-> d.kpis.average_sentiment,
      tone |-> kpiTone(d.kpis.risk_level)],
     [label |-> "% Negative", value |-> d.kpis.negative_percentage,
      tone |-> IF d.kpis.negative_percentage > 35 THEN "bad" ELSE "warn"],
     [label |-> "Predicted Sales Drop", value |-> d.kpis.predicted_sales_drop,
      tone |-> kpiTone(d.kpis.risk_level)],
     [label |-> "Risk Level", value |-> d.kpis.risk_level,
      tone |-> kpiTone(d.kpis.risk_level)] >>

\* the alert banners: data?.alerts?.length ? data.alerts.map(...) : null
AlertBanners ==
  IF data # NULL /\ Len(data.alerts) # 0
  THEN [i \in 1..Len(data.alerts) |-> [message |-> data.alerts[i], tone |-> "warn"]]
  ELSE << >>

\* what DashboardPage renders
DashboardView ==
  LET shown == ~dLoading /\ data # NULL
  IN [ skeletons |-> dLoading,
       kpiCards |-> IF shown THEN KPICards(data) ELSE << >>,
       sentimentTrend |-> IF shown THEN <<data.sentiment_trend>> ELSE << >>,
       sentimentDistribution |-> IF shown THEN <<data.sentiment_distribution>> ELSE << >>,
       commentVolume |-> IF shown THEN <<data.comment_volume>> ELSE << >>,
       salesSeries |-> IF shown THEN <<data.sales_series>> ELSE << >>,
       insights |-> IF shown THEN data.ai_insights ELSE << >>,
       alerts |-> AlertBanners,
       errorBanner |-> IF dError # "" THEN <<[message |-> dError, tone |-> "error"]>>
                       ELSE << >> ]

\* ---- the steps of DashboardPage -------------------------------------------
Mount == MountEffect /\ UNCHANGED analyzeVars
ClickRefresh == Refresh /\ UNCHANGED analyzeVars
FetchResolves ==
  (\E f \in fetches : \E r \in DashboardResponses(f.id) : FetchResolve(f, r))
  /\ UNCHANGED analyzeVars
FetchRejects ==
  (\E f \in fetches : \E e \in Errs : FetchReject(f, e)) /\ UNCHANGED analyzeVars

NextDashboard ==
  \/ Mount
  \/ ClickRefresh
  \/ FetchResolves
  \/ FetchRejects

SpecDashboard == Init /\ [][NextDashboard]_vars

\* ===========================================================================
\* Properties of AnalyzePage
\* ===========================================================================

\* C1: whenever the results panel renders the sentiment card and the
\* prediction card together, the two stored results come from the same
\* submit cycle.
C1_ResultsFromSameCycle ==
  (AnalyzeView.sentimentCard # << >> /\ AnalyzeView.predictionCard # << >>)
    => sentiment.cycle = prediction.cycle

\* C2: every submit sets loading and clears the error in the step that issues
\* request A; loading is never false while a request is in flight; and, when
\* every issued request settles, loading always becomes false again.
C2_LoadingLifecycle ==
  /\ [][nSubmits' # nSubmits =>
          /\ loading' /\ error' = ""
          /\ \E c \in calls' : c.id = nSubmits' /\ c.pending.url = "/analyze-sentiment"]_vars
  /\ [](calls # {} => loading)
  /\ (loading ~> ~loading)

\* a later cycle ended by a failure of request B, loading false again
C2_Witness ==
  /\ nSubmits >= 2
  /\ cycle.outcome = "failedB"
  /\ ~loading /\ calls = {}

\* C3: when request A of a cycle fails, no request B was issued in that
\* cycle, both stored results are the ones from before the submit, and the
\* error is the formatted message.
C3_FailedAKeepsResults ==
  cycle.outcome = "failedA" =>
    /\ cycle.requestB = NULL
    /\ \A c \in calls : c.id # cycle.id
    /\ sentiment = cycle.before.sentiment
    /\ prediction = cycle.before.prediction
    /\ error = formatError(cycle.err)
    /\ ~loading

\* request A failed in a cycle that started with both results stored
C3_Witness ==
  /\ cycle.outcome = "failedA"
  /\ cycle.before.sentiment # NULL
  /\ cycle.before.prediction # NULL
  /\ sentiment # NULL /\ prediction # NULL

\* C4: whenever loading is false and a sentiment result is stored, the results
\* panel renders the sentiment card, with or without a stored prediction.
C4_SentimentShownAlone ==
  (~loading /\ sentiment # NULL) => AnalyzeView.sentimentCard = <<sentiment>>

\* C8: request B is issued only after request A of the cycle resolved, the
\* two are never in flight together, and request B carries the body of
\* request A even when the form was edited in between.
C8_SequentialSameBody ==
  /\ Cardinality(calls) <= 1
  /\ \A c \in calls :
       /\ c.id = cycle.id
       /\ c.pc = "awaitA" => (c.pending.url = "/analyze-sentiment" /\ cycle.requestB = NULL)
       /\ c.pc = "awaitB" =>
            /\ c.pending.url = "/predict-sales-loss"
            /\ c.pending.body = cycle.requestA
  /\ cycle.requestB # NULL =>
       /\ cycle.requestB = cycle.requestA
       /\ sentiment # NULL /\ sentiment.cycle = cycle.id

\* request B is in flight and every form field differs from what was submitted
C8_Witness ==
  \E c \in calls :
    /\ c.pc = "awaitB"
    /\ c.pending.body.product_name # product
    /\ c.pending.body.brand_name # brand
    /\ c.pending.body.start_date # range.start
    /\ c.pending.body.end_date # range.end

\* C10: at most one submit cycle is in flight, loading is true exactly when
\* one is, the button is disabled exactly then, and the error is empty
\* whenever loading is true.
C10_OneCycleAtATime ==
  /\ Cardinality(calls) <= 1
  /\ loading <=> (calls # {})
  /\ AnalyzeView.submitDisabled <=> (calls # {})
  /\ loading => error = ""

\* a cycle is in progress after an earlier cycle ended in an error
C10_Witness ==
  /\ nSubmits >= 2
  /\ loading /\ calls # {}
  /\ cycle.before.sentiment # NULL /\ cycle.before.prediction = NULL

\* ===========================================================================
\* Properties of DashboardPage
\* ===========================================================================

\* C5: once every fetch has settled and the one that settled last succeeded,
\* the stored and rendered snapshot is the one that fetch returned, whether or
\* not a later fetch was started.
C5_LastResolvedWins ==
  (fetches = {} /\ settled # NULL /\ settled.ok) =>
    /\ data # NULL
    /\ data.fetch = settled.id
    /\ DashboardView.kpiCards = KPICards(data)

\* the mount fetch and one Refresh overlapped, both succeeded, and the mount
\* fetch resolved last
C5_Witness ==
  /\ nFetches = 2 /\ fetches = {}
  /\ settled = [id |-> 1, ok |-> TRUE]
  /\ dError = ""
  /\ data # NULL /\ data.fetch = 1

\* C6: a failing fetch leaves the stored snapshot as it was, and while the
\* last settled fetch is a failed one and loading is false, the error banner is
\* rendered together with the panels of the stored snapshot.
C6_FailedFetchKeepsSnapshot ==
  /\ [][(fetches' # fetches /\ nFetches' = nFetches /\ ~settled'.ok) => data' = data]_vars
  /\ []((settled # NULL /\ ~settled.ok /\ ~dLoading /\ data # NULL) =>
          /\ DashboardView.errorBanner = <<[message |-> dError, tone |-> "error"]>>
          /\ DashboardView.kpiCards = KPICards(data)
          /\ DashboardView.sentimentTrend = <<data.sentiment_trend>>
          /\ DashboardView.sentimentDistribution = <<data.sentiment_distribution>>
          /\ DashboardView.commentVolume = <<data.comment_volume>>
          /\ DashboardView.salesSeries = <<data.sales_series>>
          /\ DashboardView.insights = data.ai_insights
          /\ Len(DashboardView.alerts) = Len(data.alerts))

\* a Refresh failed after the mount fetch had stored a snapshot with an alert
C6_Witness ==
  /\ settled = [id |-> 2, ok |-> FALSE]
  /\ fetches = {} /\ ~dLoading
  /\ data # NULL /\ data.fetch = 1 /\ Len(data.alerts) = 1
  /\ dError # ""

\* C7: while loading is true no panel renders content of the stored snapshot,
\* and while loading is false and a snapshot is stored every panel renders it.
C7_PanelsFlipTogether ==
  /\ dLoading =>
       /\ DashboardView.kpiCards = << >>
       /\ DashboardView.sentimentTrend = << >>
       /\ DashboardView.sentimentDistribution = << >>
       /\ DashboardView.commentVolume = << >>
       /\ DashboardView.salesSeries = << >>
       /\ DashboardView.insights = << >>
       /\ DashboardView.alerts = << >>
  /\ (~dLoading /\ data # NULL) =>
       /\ DashboardView.kpiCards = KPICards(data)
       /\ DashboardView.sentimentTrend = <<data.sentiment_trend>>
       /\ DashboardView.sentimentDistribution = <<data.sentiment_distribution>>
       /\ DashboardView.commentVolume = <<data.comment_volume>>
       /\ DashboardView.salesSeries = <<data.sales_series>>
       /\ DashboardView.insights = data.ai_insights
       /\ Len(DashboardView.alerts) = Len(data.alerts)

\* C9: the tone of the Average Sentiment, Predicted Sales Drop and Risk Level
\* cards is bad for risk_level "High", warn for "Medium" and good for any
\* other value, whatever negative_percentage is.
C9_RiskTone ==
  DashboardView.kpiCards # << >> =>
    LET cards == DashboardView.kpiCards
        risk == data.kpis.risk_level
        tone == CASE risk = "High" -> "bad"
                  [] risk = "Medium" -> "warn"
                  [] OTHER -> "good"
    IN /\ cards[1].label = "Average Sentiment" /\ cards[1].tone = tone
       /\ cards[3].label = "Predicted Sales Drop" /\ cards[3].tone = tone
       /\ cards[4].label = "Risk Level" /\ cards[4].tone = tone

\* a rendered snapshot whose risk_level is neither "High" nor "Medium" while
\* its negative_percentage is above the threshold of the % Negative card
C9_Witness ==
  /\ DashboardView.kpiCards # << >>
  /\ data.kpis.risk_level = "HIGH"
  /\ data.kpis.negative_percentage = 36
  /\ DashboardView.kpiCards[2].tone = "bad"

====
